---- MODULE Spec2Model ----
(***************************************************************************)
(* A model of the JMAP MCP server of src/index.js: the three tool handlers *)
(* get_mailboxes, search_emails and get_email_content, each an async       *)
(* function that runs from one await to the next.  One action models the   *)
(* code between two suspension points; the answer of the collaborator that *)
(* was awaited (jam.session, jam.api.*, jam.requestMany, jam.downloadBlob, *)
(* response.text) is the action's input, drawn with \E.                    *)
(***************************************************************************)
EXTENDS Integers, Sequences, FiniteSets, TLC

\* ------------------------------------------------------------------ bounds
\* At most this many optional search fields are supplied in one call.
MaxSupplied == 1
\* The emails of the mail store are 1..NumEmails (a later id was received later).
NumEmails == 3
\* An explicit limit argument is one of 0..MaxLimit.
MaxLimit == 2
\* An address list (from, to) holds at most this many addresses.
MaxAddrs == 2

\* z.number().default(15): the limit when the caller gives none.
DefaultLimit == 15

\* ------------------------------------------------------------------- state
VARIABLES
    pc,          \* where the running handler is suspended; "idle", "done"
    tool,        \* the tool being served
    inputs,      \* the handler's argument object (a function: key -> value)
    calls,       \* the collaborator calls made by this invocation, in order
    errs,        \* the errors raised inside this invocation, in order
    filter,      \* search_emails: const filter
    batch,       \* search_emails: the stages handed to jam.requestMany
    store,       \* the mail data the server answered the batch from
    emails,      \* get_email_content: what Email.get resolved to
    email,       \* get_email_content: emails.list[0]
    bodyContent, \* get_email_content: let bodyContent
    rendition,   \* get_email_content: the branch taken, "none", "text", "html"
    response,    \* get_email_content: the awaited downloadBlob response
    result,      \* what the handler's promise settled to
    mail,        \* interleaved invocations: the server's answers, unchanged
    invs,        \* interleaved invocations: each invocation's own state
    bodies       \* interleaved invocations: each closure's let bodyContent

vars == <<pc, tool, inputs, calls, errs, filter, batch, store, emails, email,
          bodyContent, rendition, response, result>>

\* The state of the interleaved get_email_content invocations.
cvars == <<mail, invs, bodies>>

\* --------------------------------------------------------------- payloads
NoArgs == <<>>
NoStore == [thread |-> <<>>, mbox |-> <<>>]
NoEmails == [settled |-> FALSE, defined |-> FALSE, list |-> <<>>]
NoEmail == [id |-> ""]
NoResponse == [ok |-> FALSE, blobId |-> "", reads |-> FALSE]
Pending == [kind |-> "pending", isError |-> FALSE, text |-> "", data |-> <<>>]

\* return { content: [{ type: "text", text }] }
Returned(text, data) ==
    [kind |-> "returned", isError |-> FALSE, text |-> text, data |-> data]

\* return { content: [{ type: "text", text }], isError: true }
ReturnedError(text) ==
    [kind |-> "returned", isError |-> TRUE, text |-> text, data |-> <<>>]

\* An exception no try block of the handler catches: the async function's
\* promise rejects.
Rejected(err) ==
    [kind |-> "rejected", isError |-> FALSE, text |-> err, data |-> <<>>]

Call(op, arg) == [op |-> op, arg |-> arg]

\* The mailbox collections Mailbox.get may answer with.
MailboxLists == { <<>>, <<"Inbox", "Archive">> }

\* No invocation is running.
Idle ==
    /\ pc = "idle"
    /\ tool = "none"
    /\ inputs = NoArgs
    /\ calls = <<>>
    /\ errs = <<>>
    /\ filter = <<>>
    /\ batch = <<>>
    /\ store = NoStore
    /\ emails = NoEmails
    /\ email = NoEmail
    /\ bodyContent = ""
    /\ rendition = "none"
    /\ response = NoResponse
    /\ result = Pending

Init ==
    /\ Idle
    /\ mail = <<>>
    /\ invs = <<>>
    /\ bodies = <<>>

\* A tool invocation arrives: the handler starts and suspends at
\* `await jam.session`.
Start(t, args, at) ==
    /\ pc = "idle"
    /\ pc' = at
    /\ tool' = t
    /\ inputs' = args
    /\ calls' = <<Call("session", "")>>
    /\ UNCHANGED <<errs, filter, batch, store, emails, email, bodyContent,
                   rendition, response, result>>

\* The handler's promise settles.
Settle(r) ==
    /\ pc' = "done"
    /\ result' = r

\* ------------------------------------------------------------ get_mailboxes
Call_get_mailboxes ==
    /\ tool = "none"
    /\ Start("get_mailboxes", NoArgs, "mb_session")

\* const session = await jam.session; then jam.api.Mailbox.get is issued.
\* No try block: a rejected session rejects the handler.
mb_Session ==
    /\ pc = "mb_session"
    /\ \/ /\ pc' = "mb_get"
          /\ calls' = Append(calls, Call("Mailbox.get", ""))
          /\ UNCHANGED <<errs, result>>
       \/ /\ errs' = Append(errs, "session")
          /\ Settle(Rejected("session"))
          /\ UNCHANGED calls
    /\ UNCHANGED <<tool, inputs, filter, batch, store, emails, email,
                   bodyContent, rendition, response>>

\* const [mailboxes] = await jam.api.Mailbox.get({ accountId }); return it.
mb_Get ==
    /\ pc = "mb_get"
    /\ \/ \E mailboxes \in MailboxLists :
             /\ Settle(Returned("", mailboxes))
             /\ UNCHANGED errs
       \/ /\ errs' = Append(errs, "Mailbox.get")
          /\ Settle(Rejected("Mailbox.get"))
    /\ UNCHANGED <<tool, inputs, calls, filter, batch, store, emails, email,
                   bodyContent, rendition, response>>

\* ----------------------------------------------------- search_emails: input
Mailboxes == {"inbox1", "archive"}

\* The optional fields of the input schema, each with the filter key the
\* handler copies it to.
FilterKey ==
    [excludeMailboxIds |-> "inMailboxOtherThan",
     receivedBefore    |-> "before",
     receivedAfter     |-> "after",
     hasKeyword        |-> "hasKeyword",
     notKeyword        |-> "notKeyword",
     hasAttachment     |-> "hasAttachment",
     searchText        |-> "text",
     searchFrom        |-> "from",
     searchTo          |-> "to",
     searchCc          |-> "cc",
     searchBcc         |-> "bcc",
     searchSubject     |-> "subject",
     searchBody        |-> "body"]

OptionalFields == DOMAIN FilterKey

StringFields ==
    {"hasKeyword", "notKeyword", "searchText", "searchFrom", "searchTo",
     "searchCc", "searchBcc", "searchSubject", "searchBody"}

DateFields == {"receivedBefore", "receivedAfter"}

\* The values the schema lets through for each optional field:
\* z.array(z.string()), z.string().datetime() (never empty), z.boolean(),
\* z.string() (the empty string included).
FieldValues(k) ==
    CASE k = "excludeMailboxIds" -> { <<>>, <<"archive">> }
      [] k \in DateFields        -> { "2024-01-01T00:00:00Z" }
      [] k = "hasAttachment"     -> BOOLEAN
      [] OTHER                   -> { "", "x" }

RECURSIVE Assignments(_)
Assignments(S) ==
    IF S = {} THEN { <<>> }
    ELSE LET k == CHOOSE x \in S : TRUE
         IN  { (k :> v) @@ f : v \in FieldValues(k), f \in Assignments(S \ {k}) }

\* The argument objects of search_emails: mailboxId, limit (the schema fills
\* in the default), and the optional fields that were supplied.
SearchInputs ==
    { ("mailboxId" :> m) @@ ("limit" :> l) @@ opt :
        m \in Mailboxes,
        l \in (0..MaxLimit) \cup {DefaultLimit},
        opt \in UNION { Assignments(S) :
                          S \in { T \in SUBSET OptionalFields :
                                    Cardinality(T) <= MaxSupplied } } }

\* ---------------------------------------------------- search_emails: filter
Supplied(in, k) == k \in DOMAIN in

\* if (x) for a string x that may be undefined
TruthyString(in, k) == Supplied(in, k) /\ in[k] /= ""

\* One conditional assignment filter.key = value.
Entry(cond, key, in, k) == IF cond THEN key :> in[k] ELSE <<>>

StringEntryEmptyKept(in, k) == Entry(Supplied(in, k), FilterKey[k], in, k)

\* if (field) { filter.key = field; } for the date and string fields
StringEntry(in, k) == Entry(TruthyString(in, k), FilterKey[k], in, k)

RECURSIVE StringEntries(_, _)
StringEntries(in, S) ==
    IF S = {} THEN <<>>
    ELSE LET k == CHOOSE x \in S : TRUE
         IN  StringEntry(in, k) @@ StringEntries(in, S \ {k})

\* const filter = { inMailbox: mailboxId }; and the conditional assignments
BuildFilter(in) ==
    ("inMailbox" :> in["mailboxId"])
    @@ Entry(Supplied(in, "excludeMailboxIds")
               /\ Len(in["excludeMailboxIds"]) > 0,
             "inMailboxOtherThan", in, "excludeMailboxIds")
    @@ Entry(Supplied(in, "hasAttachment"),
             "hasAttachment", in, "hasAttachment")
    @@ StringEntries(in, DateFields \cup StringFields)

\* ----------------------------------------------------- search_emails: batch
NoRef == [resultOf |-> "", path |-> ""]

\* draft.$ref(path)
Ref(draft, path) == [resultOf |-> draft, path |-> path]

QueryArgs(f, limit) ==
    [filter |-> f, property |-> "receivedAt", isAscending |-> FALSE,
     position |-> 0, collapseThreads |-> TRUE, limit |-> limit]

NoQueryArgs ==
    [filter |-> <<>>, property |-> "", isAscending |-> FALSE,
     position |-> 0, collapseThreads |-> FALSE, limit |-> 0]

Stage(name, method, query, ids, properties) ==
    [name |-> name, method |-> method, query |-> query, ids |-> ids,
     properties |-> properties]

queryEmailsDraft(f, limit) ==
    Stage("queryEmails", "Email/query", QueryArgs(f, limit), NoRef, {})

getThreadIdsDraft ==
    Stage("getThreadIds", "Email/get", NoQueryArgs,
          Ref("queryEmails", "/ids"), {"threadId"})

getThreadEmailsDraft ==
    Stage("getThreadEmails", "Thread/get", NoQueryArgs,
          Ref("getThreadIds", "/list/*/threadId"), {})

getEmailDetailsDraftFromQuery ==
    Stage("getEmailDetails", "Email/get", NoQueryArgs,
          Ref("queryEmails", "/ids"),
          {"id", "subject", "from", "receivedAt", "preview", "mailboxIds"})

getEmailDetailsDraft ==
    Stage("getEmailDetails", "Email/get", NoQueryArgs,
          Ref("getThreadEmails", "/list/*/emailIds"),
          {"id", "subject", "from", "receivedAt", "preview", "mailboxIds"})

BuildBatchMembersFirst(f, limit) ==
    << queryEmailsDraft(f, limit), getThreadEmailsDraft, getThreadIdsDraft,
       getEmailDetailsDraft >>

\* The method calls of jam.requestMany(b => ...), in the order of the object
\* the builder returns.
BuildBatch(f, limit) ==
    << queryEmailsDraft(f, limit), getThreadIdsDraft, getThreadEmailsDraft,
       getEmailDetailsDraft >>

\* ------------------------------------------- the mail server (RFC 8620/8621)
Emails == 1..NumEmails

\* The thread of email e is named after its earliest member.
ThreadId(e) == 10 + e

ThreadMaps ==
    { t \in [Emails -> { ThreadId(e) : e \in Emails }] :
        \A e \in Emails :
            \/ t[e] = ThreadId(e)
            \/ \E d \in 1..(e - 1) : t[e] = ThreadId(d) /\ t[d] = ThreadId(d) }

\* Each email belongs to a thread and lies in one mailbox.
Stores == { [thread |-> t, mbox |-> m] : t \in ThreadMaps, m \in [Emails -> Mailboxes] }

Range(s) == { s[i] : i \in DOMAIN s }

Min(a, b) == IF a <= b THEN a ELSE b

\* The first occurrence of every element of s, in order.
RECURSIVE Distinct(_)
Distinct(s) ==
    IF s = <<>> THEN <<>>
    ELSE LET init == Distinct(SubSeq(s, 1, Len(s) - 1))
             last == s[Len(s)]
         IN  IF last \in Range(init) THEN init ELSE Append(init, last)

RECURSIVE Flatten(_)
Flatten(ss) == IF ss = <<>> THEN <<>> ELSE Head(ss) \o Flatten(Tail(ss))

\* The filter conditions on mailboxes; the conditions on dates, keywords and
\* text are about content the store does not hold, and every email meets them.
Matches(st, f, e) ==
    /\ st.mbox[e] = f["inMailbox"]
    /\ "inMailboxOtherThan" \in DOMAIN f
         => st.mbox[e] \notin Range(f["inMailboxOtherThan"])

\* collapseThreads: only the first email of each thread stays.
RECURSIVE Collapse(_, _)
Collapse(st, s) ==
    IF s = <<>> THEN <<>>
    ELSE LET init == Collapse(st, SubSeq(s, 1, Len(s) - 1))
             last == s[Len(s)]
         IN  IF \E i \in 1..Len(init) : st.thread[init[i]] = st.thread[last]
             THEN init ELSE Append(init, last)

\* Email/query: filter, sort by receivedAt, collapse, then the window.
EmailQuery(st, q) ==
    LET order    == [i \in 1..NumEmails |->
                       IF q.isAscending THEN i ELSE NumEmails + 1 - i]
        matching == SelectSeq(order, LAMBDA e : Matches(st, q.filter, e))
        threads  == IF q.collapseThreads THEN Collapse(st, matching) ELSE matching
    IN  SubSeq(threads, q.position + 1, Min(Len(threads), q.position + q.limit))

\* Thread/get's emailIds: the members of a thread, oldest first.
ThreadEmailIds(st, t) ==
    SelectSeq([i \in 1..NumEmails |-> i], LAMBDA e : st.thread[e] = t)

\* The ids a /get finds: each once, the unknown ones left out (notFound).
Found(ids, known) == SelectSeq(Distinct(ids), LAMBDA x : x \in known)

Answer(method, ids) == [type |-> method, ids |-> ids, detail |-> ""]

MethodError(type, name) ==
    [type |-> "error", ids |-> <<>>, detail |-> type \o "@" \o name]

StageIndex(b, name) ==
    IF \E i \in 1..Len(b) : b[i].name = name
    THEN CHOOSE i \in 1..Len(b) : b[i].name = name
    ELSE 0

\* The value a result reference points at: a path into the answer of an
\* earlier method call of the same request.
Resolvable(st, b, done, ref) ==
    LET i == StageIndex(b, ref.resultOf)
    IN  /\ i >= 1
        /\ i <= Len(done)
        /\ done[i].type /= "error"
        /\ \/ ref.path = "/ids" /\ done[i].type = "Email/query"
           \/ ref.path = "/list/*/threadId" /\ done[i].type = "Email/get"
                /\ "threadId" \in b[i].properties
           \/ ref.path = "/list/*/emailIds" /\ done[i].type = "Thread/get"

Resolve(st, b, done, ref) ==
    LET i == StageIndex(b, ref.resultOf)
    IN  CASE ref.path = "/ids" -> done[i].ids
          [] ref.path = "/list/*/threadId" ->
                 [k \in 1..Len(done[i].ids) |-> st.thread[done[i].ids[k]]]
          [] ref.path = "/list/*/emailIds" ->
                 Flatten([k \in 1..Len(done[i].ids) |->
                            ThreadEmailIds(st, done[i].ids[k])])

\* The answer to one method call, given the answers before it.
Execute(st, b, done, call, failing) ==
    IF failing THEN MethodError("serverFail", call.name)
    ELSE IF call.method = "Email/query"
    THEN Answer("Email/query", EmailQuery(st, call.query))
    ELSE IF ~Resolvable(st, b, done, call.ids)
    THEN MethodError("invalidResultReference", call.name)
    ELSE IF call.method = "Email/get"
    THEN Answer("Email/get", Found(Resolve(st, b, done, call.ids), Emails))
    ELSE Answer("Thread/get",
                Found(Resolve(st, b, done, call.ids), Range(st.thread)))

\* The server runs the method calls of a request in the order given;
\* failAt names the call that reports a server error (0: none does).
RECURSIVE Responses(_, _, _, _)
Responses(st, b, n, failAt) ==
    IF n = 0 THEN <<>>
    ELSE LET done == Responses(st, b, n - 1, failAt)
         IN  Append(done, Execute(st, b, done, b[n], n = failAt))

\* jam.requestMany throws the error responses if there are any.
ErrorsOf(rs) == SelectSeq(rs, LAMBDA r : r.type = "error")

RECURSIVE Join(_, _)
Join(ss, sep) ==
    IF ss = <<>> THEN ""
    ELSE IF Len(ss) = 1 THEN ss[1]
    ELSE ss[1] \o sep \o Join(Tail(ss), sep)

\* JSON.stringify of what was thrown: an Error instance has no enumerable
\* property; the error responses are plain objects.
JsonOfError == "{}"
JsonOfErrors(es) == "[" \o Join([i \in 1..Len(es) |-> es[i].detail], ",") \o "]"

\* An EmailSummary of the properties asked for.
Summary(st, e) == [id |-> e, mailboxIds |-> {st.mbox[e]}]

ListOf(st, b, rs, name) ==
    LET i == StageIndex(b, name)
    IN  [k \in 1..Len(rs[i].ids) |-> Summary(st, rs[i].ids[k])]

\* ------------------------------------------------------------ search_emails
Call_search_emails ==
    /\ tool = "none"
    /\ \E in \in SearchInputs : Start("search_emails", in, "se_session")

\* Inside try: await jam.session, the filter, and jam.requestMany is issued.
se_Session ==
    /\ pc = "se_session"
    /\ \/ /\ pc' = "se_batch"
          /\ filter' = BuildFilter(inputs)
          /\ batch' = BuildBatch(filter', inputs["limit"])
          /\ calls' = Append(calls, Call("requestMany", ""))
          /\ UNCHANGED <<errs, result>>
       \/ /\ errs' = Append(errs, "session")
          /\ Settle(ReturnedError("Error fetching emails: " \o JsonOfError))
          /\ UNCHANGED <<filter, batch, calls>>
    /\ UNCHANGED <<tool, inputs, store, emails, email, bodyContent, rendition,
                   response>>

\* text: JSON.stringify(results.getEmailDetails.list, null, 2)
SearchReturn(st, b, rs) == Returned("", ListOf(st, b, rs, "getEmailDetails"))

SearchCatchRethrow(json) == Rejected(json)

\* catch (error): the error-flagged payload
SearchCatch(json) == ReturnedError("Error fetching emails: " \o json)

\* const [results] = await jam.requestMany(...) settles.
se_Batch ==
    /\ pc = "se_batch"
    /\ \/ \E st \in Stores :
             LET rs == Responses(st, batch, Len(batch), 0)
             IN  /\ store' = st
                 /\ IF ErrorsOf(rs) = <<>>
                    THEN /\ Settle(SearchReturn(st, batch, rs))
                         /\ UNCHANGED errs
                    ELSE /\ errs' = Append(errs, "protocol")
                         /\ Settle(SearchCatch(JsonOfErrors(ErrorsOf(rs))))
       \/ \E failAt \in 1..Len(batch) :
             LET st == CHOOSE x \in Stores : TRUE
                 rs == Responses(st, batch, Len(batch), failAt)
             IN  /\ errs' = Append(errs, "protocol:" \o batch[failAt].name)
                 /\ Settle(SearchCatch(JsonOfErrors(ErrorsOf(rs))))
                 /\ UNCHANGED store
       \/ /\ errs' = Append(errs, "transport")
          /\ Settle(SearchCatch(JsonOfError))
          /\ UNCHANGED store
    /\ UNCHANGED <<tool, inputs, calls, filter, batch, emails, email,
                   bodyContent, rendition, response>>

\* ------------------------------------------------- get_email_content: data
EmailIds == {"e1", "missing"}

\* An object is a function from the keys it has; a null or undefined property
\* is a key it lacks.
Has(obj, k) == k \in DOMAIN obj

\* x.k as a condition, for a string property
Truthy(obj, k) == Has(obj, k) /\ obj[k] /= ""

Opt(k, vals) == { <<>> } \cup { k :> v : v \in vals }

Al == ("name" :> "Al") @@ ("email" :> "al@x.com")
Addresses == { Al, "email" :> "al@x.com", ("name" :> "") @@ ("email" :> "ann@x.com") }

RECURSIVE SeqsUpTo(_, _)
SeqsUpTo(S, n) ==
    IF n = 0 THEN { <<>> }
    ELSE LET shorter == SeqsUpTo(S, n - 1)
         IN  shorter \cup { Append(s, x) : s \in { t \in shorter : Len(t) = n - 1 }, x \in S }

Bo == ("name" :> "Bo") @@ ("email" :> "bo@y.org")
Recipients == { <<>>, <<"email" :> "cy@y.org">>, <<Bo, "email" :> "cy@y.org">> }

\* A body part names its content by blobId, which it may lack.
PartLists(b1, b2) ==
    { <<>>, << <<>> >>, << "blobId" :> b1 >>, << "blobId" :> b2, "blobId" :> b1 >> }

\* The EmailDetail records Email.get may answer with (properties id, textBody,
\* htmlBody, subject, from, to, sentAt, receivedAt).
EmailDetails ==
    { ("id" :> "e1") @@ su @@ fr @@ to @@ ra @@ sa @@ tb @@ hb :
        su \in Opt("subject", {"", "Hi"}),
        fr \in Opt("from", SeqsUpTo(Addresses, MaxAddrs)),
        to \in Opt("to", Recipients),
        ra \in Opt("receivedAt", {"2024-02-02T10:00:00Z"}),
        sa \in Opt("sentAt", {"2024-02-01T09:00:00Z"}),
        tb \in Opt("textBody", PartLists("t1", "t2")),
        hb \in Opt("htmlBody", PartLists("h1", "h2")) }

\* The text a blob reads as.
BlobText(blobId) == "content of " \o blobId

\* ------------------------------------------- get_email_content: formatting
Sentinel == "No body content found."

\* f => f.name ? `${f.name} <${f.email}>` : f.email
FormatAddressNameOnly(a) == IF Truthy(a, "name") THEN a["name"] ELSE a["email"]

FormatAddress(a) ==
    IF Truthy(a, "name") THEN a["name"] \o " <" \o a["email"] \o ">"
    ELSE a["email"]

\* list.map(...).join(', ')
FormatList(l) == Join([i \in 1..Len(l) |-> FormatAddress(l[i])], ", ")

\* The template literal of the final return.
FormatEmail(em, body) ==
    "Subject: "
    \o (IF Truthy(em, "subject") THEN em["subject"] ELSE "(No Subject)")
    \o "\nFrom: "
    \o (IF Has(em, "from") THEN FormatList(em["from"]) ELSE "(Unknown Sender)")
    \o "\nTo: "
    \o (IF Has(em, "to") THEN FormatList(em["to"]) ELSE "(Unknown Recipient)")
    \o "\nDate: "
    \o (IF Truthy(em, "receivedAt") THEN em["receivedAt"]
        ELSE IF Truthy(em, "sentAt") THEN em["sentAt"]
        ELSE "(Unknown Date)")
    \o "\n\n---\n\n"
    \o body

\* bodyContent = `[HTML Body - may contain tags]\n${downloadedHtml}`
HtmlBodyUntagged(downloaded) == downloaded

HtmlBody(downloaded) == "[HTML Body - may contain tags]\n" \o downloaded

\* ---------------------------------------------- get_email_content: handler
\* x && x.length > 0
NonEmptyList(obj, k) == Has(obj, k) /\ Len(obj[k]) > 0

\* if (textBody...) {...} else if (htmlBody...) {...}
ChooseRenditionHtmlFirst(em) ==
    IF NonEmptyList(em, "htmlBody") THEN "html"
    ELSE IF NonEmptyList(em, "textBody") THEN "text"
    ELSE "none"

ChooseRendition(em) ==
    IF NonEmptyList(em, "textBody") THEN "text"
    ELSE IF NonEmptyList(em, "htmlBody") THEN "html"
    ELSE "none"

\* email.textBody[0], email.htmlBody[0]
FirstPart(em, r) == IF r = "text" THEN em["textBody"][1] ELSE em["htmlBody"][1]

\* What Email.get resolved to: the response object, when there is one, and
\* its list.
GetResponse(defined, list) ==
    [settled |-> TRUE, defined |-> defined, list |-> list]

\* if (!emails || emails.list.length === 0)
NotFoundOnlyUndefined(got) == ~got.defined

NotFound(got) == ~got.defined \/ Len(got.list) = 0

NotFoundPayload(emailId) ==
    ReturnedError("Error: Email with ID " \o emailId \o " not found.")

Call_get_email_content ==
    /\ tool = "none"
    /\ \E id \in EmailIds :
          Start("get_email_content", "emailId" :> id, "ec_session")

\* const session = await jam.session; then jam.api.Email.get is issued.
ec_Session ==
    /\ pc = "ec_session"
    /\ \/ /\ pc' = "ec_get"
          /\ calls' = Append(calls, Call("Email.get", inputs["emailId"]))
          /\ UNCHANGED <<errs, result>>
       \/ /\ errs' = Append(errs, "session")
          /\ Settle(Rejected("session"))
          /\ UNCHANGED calls
    /\ UNCHANGED <<tool, inputs, filter, batch, store, emails, email,
                   bodyContent, rendition, response>>

\* From the not-found test to the first await of downloadBodyPartContent, or
\* to the final return when nothing is to be downloaded.
ec_Select(got) ==
    /\ emails' = got
    /\ IF NotFound(got)
       THEN /\ Settle(NotFoundPayload(inputs["emailId"]))
            /\ UNCHANGED <<calls, errs, email, bodyContent, rendition>>
       ELSE IF Len(got.list) = 0
       THEN \* got.list[0] is undefined: email.textBody throws a TypeError
            /\ errs' = Append(errs, "TypeError")
            /\ Settle(Rejected("TypeError"))
            /\ UNCHANGED <<calls, email, bodyContent, rendition>>
       ELSE LET em == got.list[1]
                r  == ChooseRendition(em)
            IN  /\ email' = em
                /\ rendition' = r
                /\ bodyContent' = Sentinel
                /\ IF r /= "none" /\ Truthy(FirstPart(em, r), "blobId")
                   THEN /\ pc' = "ec_blob"
                        /\ calls' = Append(calls,
                                      Call("downloadBlob", FirstPart(em, r)["blobId"]))
                        /\ UNCHANGED <<errs, result>>
                   ELSE /\ Settle(Returned(FormatEmail(em, Sentinel), <<>>))
                        /\ errs' = IF r = "none" THEN errs
                                   ELSE Append(errs, "blobId")
                        /\ UNCHANGED calls

\* const [emails] = await jam.api.Email.get(...) settles.
ec_Get ==
    /\ pc = "ec_get"
    /\ \/ /\ errs' = Append(errs, "Email.get")
          /\ Settle(Rejected("Email.get"))
          /\ UNCHANGED <<calls, emails, email, bodyContent, rendition>>
       \/ ec_Select(GetResponse(FALSE, <<>>))
       \/ /\ inputs["emailId"] = "missing"
          /\ ec_Select(GetResponse(TRUE, <<>>))
       \/ /\ inputs["emailId"] = "e1"
          /\ \E em \in EmailDetails : ec_Select(GetResponse(TRUE, <<em>>))
    /\ UNCHANGED <<tool, inputs, filter, batch, store, response>>

\* const response = await jam.downloadBlob(...) settles, inside try.
ec_Blob ==
    /\ pc = "ec_blob"
    /\ LET blobId == calls[Len(calls)].arg
       IN  \/ \* it throws: catch (error) { return null; }
              /\ errs' = Append(errs, "downloadBlob")
              /\ Settle(Returned(FormatEmail(email, bodyContent), <<>>))
              /\ UNCHANGED <<calls, response>>
           \/ \* !response.ok: return null
              /\ errs' = Append(errs, "status")
              /\ response' = [ok |-> FALSE, blobId |-> blobId, reads |-> FALSE]
              /\ Settle(Returned(FormatEmail(email, bodyContent), <<>>))
              /\ UNCHANGED calls
           \/ \* response.ok: return response.text()
              /\ pc' = "ec_text"
              /\ response' = [ok |-> TRUE, blobId |-> blobId, reads |-> FALSE]
              /\ calls' = Append(calls, Call("text", blobId))
              /\ UNCHANGED <<errs, result>>
    /\ UNCHANGED <<tool, inputs, filter, batch, store, emails, email,
                   bodyContent, rendition>>

\* The promise of response.text() was returned, not awaited, from inside the
\* try block: it settles the promise of downloadBodyPartContent, which the
\* handler awaits outside any try block.
ec_Text ==
    /\ pc = "ec_text"
    /\ \/ LET downloaded == BlobText(response.blobId)
              body == IF rendition = "html" THEN HtmlBody(downloaded)
                      ELSE downloaded
          IN  /\ bodyContent' = body
              /\ response' = [response EXCEPT !.reads = TRUE]
              /\ Settle(Returned(FormatEmail(email, body), <<>>))
              /\ UNCHANGED errs
       \/ /\ errs' = Append(errs, "text")
          /\ Settle(Rejected("text"))
          /\ UNCHANGED <<bodyContent, response>>
    /\ UNCHANGED <<tool, inputs, calls, filter, batch, store, emails, email,
                   rendition>>

\* ------------------------------------------------------------------- result
\* The host has the result; the server waits for the next invocation.
Deliver ==
    /\ pc = "done"
    /\ pc' = "idle"
    /\ tool' = "none"
    /\ inputs' = NoArgs
    /\ calls' = <<>>
    /\ errs' = <<>>
    /\ filter' = <<>>
    /\ batch' = <<>>
    /\ store' = NoStore
    /\ emails' = NoEmails
    /\ email' = NoEmail
    /\ bodyContent' = ""
    /\ rendition' = "none"
    /\ response' = NoResponse
    /\ result' = Pending

\* One invocation at a time: the state of the interleaved invocations stays
\* as it is.
Next ==
    \/ Call_get_mailboxes /\ UNCHANGED cvars
    \/ mb_Session /\ UNCHANGED cvars
    \/ mb_Get /\ UNCHANGED cvars
    \/ Call_search_emails /\ UNCHANGED cvars
    \/ se_Session /\ UNCHANGED cvars
    \/ se_Batch /\ UNCHANGED cvars
    \/ Call_get_email_content /\ UNCHANGED cvars
    \/ ec_Session /\ UNCHANGED cvars
    \/ ec_Get /\ UNCHANGED cvars
    \/ ec_Blob /\ UNCHANGED cvars
    \/ ec_Text /\ UNCHANGED cvars
    \/ Deliver /\ UNCHANGED cvars

Spec == Init /\ [][Next]_<<vars, cvars>>

\* ------------------------------------- get_email_content, interleaved
\* The host may start an invocation while others are suspended at an await.
\* Every invocation runs the handler of get_email_content in a closure of
\* its own; the module-level objects they share (jam, server) are only read.
\* This many invocations may be in flight at once.
NumInvocations == 2

Invs == 1..NumInvocations

ConcIds == {"e1", "e2", "missing"}

\* e1 declares a plain-text part (and an HTML part), e2 an HTML part only.
TextMail ==
    ("id" :> "e1") @@ ("subject" :> "Hi") @@ ("from" :> <<Al>>)
    @@ ("textBody" :> <<"blobId" :> "t1">>) @@ ("htmlBody" :> <<"blobId" :> "h2">>)

HtmlMail ==
    ("id" :> "e2") @@ ("to" :> <<Bo>>) @@ ("receivedAt" :> "2024-02-02T10:00:00Z")
    @@ ("textBody" :> <<>>) @@ ("htmlBody" :> <<"blobId" :> "h1">>)

\* How a download of a blob ends.
BlobOutcomes == {"throws", "status", "unreadable", "ok"}

\* What the collaborators answer, the same for every invocation: whether
\* jam.session resolves, whether Email.get of an id resolves, and how the
\* download of each blob ends.  The account holds e1 and e2, not "missing".
MailData ==
    [session : BOOLEAN,
     get     : [{"e1", "e2"} -> {"found", "fails"}],
     blob    : [{"t1", "h1"} -> BlobOutcomes]]

\* const [emails] = await jam.api.Email.get({ ids: [emailId], ... })
EmailGet(m, id) ==
    CASE id = "e1" -> GetResponse(TRUE, <<TextMail>>)
      [] id = "e2" -> GetResponse(TRUE, <<HtmlMail>>)
      [] OTHER     -> GetResponse(TRUE, <<>>)

EmailGetFails(m, id) == id \in DOMAIN m.get /\ m.get[id] = "fails"

IdleInvocation ==
    [pc |-> "idle", emailId |-> "", log |-> <<>>, email |-> NoEmail,
     rendition |-> "none", blobId |-> "", overlapped |-> FALSE,
     result |-> Pending]

InitConc ==
    /\ Idle
    /\ mail \in MailData
    /\ invs = [i \in Invs |-> IdleInvocation]
    /\ bodies = [i \in Invs |-> ""]

\* `let bodyContent` is declared inside the handler: one variable per
\* invocation.
BodySlotShared(i) == 1

BodySlot(i) == i

InFlight(i) == invs[i].pc \notin {"idle", "done"}

\* Invocation i takes a step: the awaited call completes, the next one (if
\* any) is issued.
Step(i, at, events, changes) ==
    invs' = [invs EXCEPT ![i] =
               [ [ k \in DOMAIN invs[i] |->
                     IF k \in DOMAIN changes THEN changes[k] ELSE invs[i][k] ]
                 EXCEPT !.pc = at,
                        !.log = invs[i].log \o events,
                        !.overlapped = invs[i].overlapped
                                         \/ \E j \in Invs \ {i} : InFlight(j) ]]

cc_Call(i) ==
    /\ invs[i].pc = "idle"
    /\ \E id \in ConcIds :
          Step(i, "session", <<"issue:session">>, "emailId" :> id)
    /\ UNCHANGED <<mail, bodies>>

cc_Session(i) ==
    /\ invs[i].pc = "session"
    /\ IF mail.session
       THEN Step(i, "get", <<"done:session", "issue:Email.get">>, <<>>)
       ELSE Step(i, "done", <<"done:session">>, "result" :> Rejected("session"))
    /\ UNCHANGED <<mail, bodies>>

\* From the not-found test to the first await of downloadBodyPartContent, or
\* to the final return, as ec_Select.
cc_Get(i) ==
    /\ invs[i].pc = "get"
    /\ LET id  == invs[i].emailId
           got == EmailGet(mail, id)
       IN  IF EmailGetFails(mail, id)
           THEN /\ Step(i, "done", <<"done:Email.get">>,
                        "result" :> Rejected("Email.get"))
                /\ UNCHANGED bodies
           ELSE IF NotFound(got)
           THEN /\ Step(i, "done", <<"done:Email.get">>,
                        "result" :> NotFoundPayload(id))
                /\ UNCHANGED bodies
           ELSE LET em == got.list[1]
                    r  == ChooseRendition(em)
                IN  /\ bodies' = [bodies EXCEPT ![BodySlot(i)] = Sentinel]
                    /\ IF r /= "none" /\ Truthy(FirstPart(em, r), "blobId")
                       THEN Step(i, "blob",
                                 <<"done:Email.get", "issue:downloadBlob">>,
                                 ("email" :> em) @@ ("rendition" :> r)
                                 @@ ("blobId" :> FirstPart(em, r)["blobId"]))
                       ELSE Step(i, "done", <<"done:Email.get">>,
                                 ("email" :> em) @@ ("rendition" :> r)
                                 @@ ("result" :>
                                       Returned(FormatEmail(em, Sentinel), <<>>)))
    /\ UNCHANGED mail

\* await jam.downloadBlob(...) settles; a null leads to the final return,
\* which reads bodyContent.
cc_Blob(i) ==
    /\ invs[i].pc = "blob"
    /\ LET outcome == mail.blob[invs[i].blobId]
       IN  IF outcome \in {"throws", "status"}
           THEN Step(i, "done", <<"done:downloadBlob">>,
                     "result" :> Returned(FormatEmail(invs[i].email,
                                                      bodies[BodySlot(i)]), <<>>))
           ELSE Step(i, "text", <<"done:downloadBlob", "issue:text">>, <<>>)
    /\ UNCHANGED <<mail, bodies>>

\* response.text() settles.
cc_Text(i) ==
    /\ invs[i].pc = "text"
    /\ IF mail.blob[invs[i].blobId] = "unreadable"
       THEN /\ Step(i, "done", <<"done:text">>, "result" :> Rejected("text"))
            /\ UNCHANGED bodies
       ELSE LET downloaded == BlobText(invs[i].blobId)
                body == IF invs[i].rendition = "html" THEN HtmlBody(downloaded)
                        ELSE downloaded
            IN  /\ bodies' = [bodies EXCEPT ![BodySlot(i)] = body]
                /\ Step(i, "done", <<"done:text">>,
                        "result" :> Returned(FormatEmail(invs[i].email,
                                                         bodies'[BodySlot(i)]), <<>>))
    /\ UNCHANGED mail

\* The result goes to the host and the closure is gone; the slot serves the
\* next invocation.
cc_Deliver(i) ==
    /\ invs[i].pc = "done"
    /\ invs' = [invs EXCEPT ![i] = IdleInvocation]
    /\ bodies' = [bodies EXCEPT ![BodySlot(i)] = ""]
    /\ UNCHANGED mail

NextConc ==
    \/ \E i \in Invs : cc_Call(i) /\ UNCHANGED vars
    \/ \E i \in Invs : cc_Session(i) /\ UNCHANGED vars
    \/ \E i \in Invs : cc_Get(i) /\ UNCHANGED vars
    \/ \E i \in Invs : cc_Blob(i) /\ UNCHANGED vars
    \/ \E i \in Invs : cc_Text(i) /\ UNCHANGED vars
    \/ \E i \in Invs : cc_Deliver(i) /\ UNCHANGED vars

SpecConc == InitConc /\ [][NextConc]_<<vars, cvars>>

\* ================================================================== claims
Done(t) == pc = "done" /\ tool = t

Occurred(kinds) == \E i \in 1..Len(errs) : errs[i] \in kinds

CallsOf(op) == SelectSeq(calls, LAMBDA c : c.op = op)

\* -------------------------------------------------------------------- C1
\* The filter has been built (the handler is past `await jam.session`).
FilterBuilt == tool = "search_emails" /\ Has(filter, "inMailbox")

\* C1 as stated: once the filter is built, it holds predicate key K if and
\* only if the input field of K was supplied (an empty string, an empty list
\* and false all count as supplied), and inMailbox equals mailboxId.
C1_KeyIffSupplied ==
    FilterBuilt =>
        /\ filter["inMailbox"] = inputs["mailboxId"]
        /\ \A k \in OptionalFields :
               FilterKey[k] \in DOMAIN filter <=> Supplied(inputs, k)

\* A supplied value the handler's conditions let through: a list with an
\* element, either boolean, a string that is not empty.
C1_NonEmpty(k) ==
    CASE k = "excludeMailboxIds" -> inputs[k] /= <<>>
      [] k = "hasAttachment"     -> TRUE
      [] OTHER                   -> inputs[k] /= ""

\* C1 as amended: the filter holds key K if and only if the input field of K
\* was supplied and is not an empty string or an empty list (hasAttachment:
\* supplied as true or as false); a key that is present carries the input's
\* value; inMailbox is always present and equals mailboxId; there is no
\* other key.
C1_KeyIffSuppliedNonEmpty ==
    FilterBuilt =>
        /\ filter["inMailbox"] = inputs["mailboxId"]
        /\ DOMAIN filter \subseteq {"inMailbox"} \cup Range(FilterKey)
        /\ \A k \in OptionalFields :
               /\ FilterKey[k] \in DOMAIN filter
                    <=> (Supplied(inputs, k) /\ C1_NonEmpty(k))
               /\ FilterKey[k] \in DOMAIN filter
                    => filter[FilterKey[k]] = inputs[k]

\* A filter built from an input that supplies hasAttachment: false, which is
\* copied.
C1_Witness ==
    /\ FilterBuilt
    /\ Supplied(inputs, "hasAttachment")
    /\ ~inputs["hasAttachment"]
    /\ Has(filter, "hasAttachment")
    /\ ~filter["hasAttachment"]

\* -------------------------------------------------------------------- C2
ProtocolErrors ==
    {"protocol"} \cup { "protocol:" \o n : n \in
        {"queryEmails", "getThreadIds", "getThreadEmails", "getEmailDetails"} }

\* C2: when a handler has ended after a failure of session resolution, of
\* Mailbox.get, of Email.get, of the batched request or of reading a
\* downloaded body, it has returned an error-flagged payload and has not
\* rejected.
C2_ErrorsReturnedNotThrown ==
    (pc = "done" /\ Occurred({"session", "Mailbox.get", "Email.get",
                              "transport", "text"} \cup ProtocolErrors))
        => (result.kind = "returned" /\ result.isError)

\* -------------------------------------------------------------------- C3
StageNames == <<"queryEmails", "getThreadIds", "getThreadEmails", "getEmailDetails">>

\* The error responses of a request whose k-th call fails: the server error
\* of that call, and for every later call a reference that cannot resolve.
C3_Upstream(k) ==
    "[serverFail@" \o StageNames[k]
    \o Join([j \in 1..(4 - k) |->
               ",invalidResultReference@" \o StageNames[k + j]], "")
    \o "]"

\* C3: when search_emails has ended after one of the four stages reported a
\* protocol-level error, its result is one error-flagged payload whose text
\* carries the upstream errors, it holds no email summary, and the batch was
\* submitted exactly once.
C3_StageErrorFailsWholeSearch ==
    \A k \in 1..4 :
        (Done("search_emails") /\ Occurred({"protocol:" \o StageNames[k]}))
            => /\ result = ReturnedError("Error fetching emails: " \o C3_Upstream(k))
               /\ result.data = <<>>
               /\ Len(CallsOf("requestMany")) = 1

C3_Witness ==
    /\ Done("search_emails")
    /\ Occurred({"protocol:getThreadEmails"})
    /\ result.isError
    /\ Len(CallsOf("requestMany")) = 1

\* -------------------------------------------------------------------- C4
HtmlBlobIds == {"h1", "h2"}

\* The retrieval of the chosen part failed before any content was read.
RetrievalFailed == Occurred({"blobId", "status", "downloadBlob"})

\* C4: in get_email_content, when the email declares at least one plain-text
\* part, no content-retrieval call is ever made for an HTML part, and when
\* the first plain-text part has no blobId, or its download reports a
\* non-success status or throws, the invocation ends with the body
\* 'No body content found.'.
C4_NoHtmlFallbackAfterTextPart ==
    (tool = "get_email_content" /\ NonEmptyList(email, "textBody")) =>
        /\ \A i \in 1..Len(calls) :
               calls[i].op \in {"downloadBlob", "text"}
                   => /\ calls[i].arg \notin HtmlBlobIds
                      /\ calls[i].arg = email["textBody"][1]["blobId"]
        /\ Len(CallsOf("downloadBlob")) <= 1
        /\ RetrievalFailed
             => /\ pc = "done"
                /\ bodyContent = "No body content found."
                /\ result = Returned(FormatEmail(email, "No body content found."), <<>>)

\* The download of the first plain-text part failed while the email also
\* declares an HTML part with content.
C4_Witness ==
    /\ Done("get_email_content")
    /\ NonEmptyList(email, "textBody")
    /\ NonEmptyList(email, "htmlBody")
    /\ Has(email["htmlBody"][1], "blobId")
    /\ Occurred({"status"})
    /\ bodyContent = "No body content found."

\* -------------------------------------------------------------------- C5
EmptyList(obj, k) == Has(obj, k) /\ obj[k] = <<>>

OneHtmlPart == Has(email, "htmlBody") /\ Len(email["htmlBody"]) = 1

HtmlTagged(body) ==
    \E b \in HtmlBlobIds :
        body = "[HTML Body - may contain tags]\n" \o "content of " \o b

\* Both halves of C5 share this: with both part lists empty the body is the
\* sentinel and nothing is retrieved.
C5_BothEmpty ==
    (Done("get_email_content") /\ EmptyList(email, "textBody")
       /\ EmptyList(email, "htmlBody"))
        => /\ result = Returned(FormatEmail(email, "No body content found."), <<>>)
           /\ bodyContent = "No body content found."
           /\ CallsOf("downloadBlob") = <<>>

\* C5 as stated: an invocation that ended for an email with an empty
\* plain-text part list and one HTML part resolved an HTML-tagged body; with
\* both lists empty the body is the sentinel and nothing is retrieved.
C5_HtmlPartAlwaysTagged ==
    /\ (Done("get_email_content") /\ EmptyList(email, "textBody") /\ OneHtmlPart)
         => (result.kind = "returned" /\ HtmlTagged(bodyContent))
    /\ C5_BothEmpty

\* C5 as amended: for an email with an empty plain-text part list and one
\* HTML part, the body is HTML-tagged exactly when that part's content was
\* retrieved (it has a blobId, the download succeeded and its text was read);
\* when the part has no blobId, or the download reports a non-success status
\* or throws, the body is the sentinel; when reading the text fails the
\* invocation rejects and resolves no body.  With both lists empty the body
\* is the sentinel and nothing is retrieved.
C5_HtmlPartTaggedWhenRetrieved ==
    /\ (Done("get_email_content") /\ EmptyList(email, "textBody") /\ OneHtmlPart)
         => /\ rendition = "html"
            /\ response.reads
                 => /\ HtmlTagged(bodyContent)
                    /\ result = Returned(FormatEmail(email, bodyContent), <<>>)
                    /\ bodyContent = "[HTML Body - may contain tags]\n"
                          \o "content of " \o email["htmlBody"][1]["blobId"]
            /\ RetrievalFailed
                 => /\ bodyContent = "No body content found."
                    /\ result = Returned(FormatEmail(email, bodyContent), <<>>)
            /\ (~response.reads /\ ~RetrievalFailed)
                 => (result.kind = "rejected" /\ Occurred({"text"}))
    /\ C5_BothEmpty

C5_Witness ==
    /\ Done("get_email_content")
    /\ EmptyList(email, "textBody")
    /\ OneHtmlPart
    /\ response.reads
    /\ HtmlTagged(bodyContent)

\* -------------------------------------------------------------------- C6
\* C6: once Email.get has resolved to a missing response or to an empty list,
\* the invocation has ended with the error-flagged payload that names the
\* requested id, not with a rejection, and has made no downloadBlob call.
C6_NotFoundIsErrorPayload ==
    (tool = "get_email_content" /\ emails.settled
       /\ (~emails.defined \/ emails.list = <<>>))
        => /\ pc = "done"
           /\ result = ReturnedError("Error: Email with ID "
                                       \o inputs["emailId"] \o " not found.")
           /\ CallsOf("downloadBlob") = <<>>
           /\ CallsOf("text") = <<>>

C6_Witness ==
    /\ Done("get_email_content")
    /\ inputs["emailId"] = "missing"
    /\ emails.settled /\ emails.defined /\ emails.list = <<>>
    /\ result.isError

\* -------------------------------------------------------------------- C7
\* C7: when get_email_content has ended after the retrieval of the chosen
\* part failed (no blobId, a non-success status, or an error raised by the
\* download or while the response body was read as text), its result is the
\* non-error payload of the header block and 'No body content found.'.
C7_RetrievalFailureNotFatal ==
    (Done("get_email_content")
       /\ Occurred({"blobId", "status", "downloadBlob", "text"}))
        => result = Returned(FormatEmail(email, "No body content found."), <<>>)

\* -------------------------------------------------------------------- C8
SearchSucceeded ==
    Done("search_emails") /\ result.kind = "returned" /\ ~result.isError

\* The emails of the store the filter matches.
C8_Matching == { e \in Emails : Matches(store, filter, e) }

\* Thread collapsing: of each thread, the matching email received last.
C8_Exemplars ==
    { e \in C8_Matching :
        \A d \in C8_Matching : store.thread[d] = store.thread[e] => d <= e }

\* The query stage's ids: the `limit` exemplars received last.
C8_Queried ==
    { e \in C8_Exemplars :
        Cardinality({ d \in C8_Exemplars : d > e }) < inputs["limit"] }

C8_Members(t) == { e \in Emails : store.thread[e] = t }

C8_MaxThreadSize ==
    CHOOSE n \in 0..NumEmails :
        /\ \A e \in Emails : Cardinality(C8_Members(store.thread[e])) <= n
        /\ \E e \in Emails : Cardinality(C8_Members(store.thread[e])) = n

C8_ReturnedIds == { result.data[i].id : i \in 1..Len(result.data) }

C9_Entry(a) ==
    IF "name" \in DOMAIN a /\ a["name"] /= ""
    THEN a["name"] \o " <" \o a["email"] \o ">"
    ELSE a["email"]

\* The entries, each after the first preceded by ', '.
RECURSIVE C9_List(_)
C9_List(l) ==
    IF l = <<>> THEN ""
    ELSE C9_List(SubSeq(l, 1, Len(l) - 1))
           \o (IF Len(l) > 1 THEN ", " ELSE "")
           \o C9_Entry(l[Len(l)])

\* A value that is there: not null, not undefined, not the empty string.
C9_Present(k) == k \in DOMAIN email /\ email[k] /= ""

C9_Header ==
    "Subject: " \o (IF C9_Present("subject") THEN email["subject"] ELSE "(No Subject)")
    \o "\n"
    \o "From: " \o (IF "from" \in DOMAIN email THEN C9_List(email["from"])
                    ELSE "(Unknown Sender)")
    \o "\n"
    \o "To: " \o (IF "to" \in DOMAIN email THEN C9_List(email["to"])
                  ELSE "(Unknown Recipient)")
    \o "\n"
    \o "Date: " \o (CASE C9_Present("receivedAt") -> email["receivedAt"]
                      [] ~C9_Present("receivedAt") /\ C9_Present("sentAt") -> email["sentAt"]
                      [] OTHER -> "(Unknown Date)")

ContentReturned ==
    Done("get_email_content") /\ result.kind = "returned" /\ ~result.isError

\* C9: the text get_email_content returns is the Subject, From, To and Date
\* lines with their placeholders for missing values, then a '---' separator
\* and the body; address lists are joined with ', ', each entry
\* 'Name <address>' with a display name and 'address' without.
C9_HeaderBlock ==
    ContentReturned =>
        /\ result.text = C9_Header \o "\n\n---\n\n" \o bodyContent
        /\ (Has(email, "from") /\ email["from"] = <<Al>> /\ DOMAIN email = {"id", "from"})
             => result.text = "Subject: (No Subject)\nFrom: Al <al@x.com>\n"
                  \o "To: (Unknown Recipient)\nDate: (Unknown Date)\n\n---\n\n"
                  \o "No body content found."
        /\ (Has(email, "from") /\ email["from"] = <<"email" :> "al@x.com">>
              /\ Has(email, "subject") /\ email["subject"] = "Hi"
              /\ DOMAIN email = {"id", "from", "subject", "sentAt"})
             => result.text = "Subject: Hi\nFrom: al@x.com\n"
                  \o "To: (Unknown Recipient)\nDate: 2024-02-01T09:00:00Z\n\n---\n\n"
                  \o "No body content found."

\* A sender list of a named and an unnamed entry, two recipients, and a sent
\* date only.
C9_Witness ==
    /\ ContentReturned
    /\ Has(email, "from") /\ email["from"] = <<Al, "email" :> "al@x.com">>
    /\ Has(email, "to") /\ Len(email["to"]) = 2
    /\ ~Has(email, "receivedAt") /\ Has(email, "sentAt")
    /\ ~Has(email, "subject")

\* ------------------------------------------------------------------- C10
C10_Paths == <<"", "/ids", "/list/*/threadId", "/list/*/emailIds">>

C10_Methods == <<"Email/query", "Email/get", "Thread/get", "Email/get">>

\* C10: the batch search_emails submits is the four stages in the order
\* query, thread-id fetch, thread-members fetch, detail fetch; the query
\* stage has literal parameters only (the filter, receivedAt descending,
\* collapseThreads, position 0, the limit); the ids of every later stage are
\* a reference into the result of the stage right before it, at '/ids',
\* '/list/*/threadId' and '/list/*/emailIds'; and what the handler returns is
\* the list of the detail stage.
C10_BatchOrderAndReferences ==
    (tool = "search_emails" /\ pc \in {"se_batch", "done"} /\ batch /= <<>>) =>
        /\ Len(CallsOf("requestMany")) = 1
        /\ [i \in 1..Len(batch) |-> batch[i].name] = StageNames
        /\ [i \in 1..Len(batch) |-> batch[i].method] = C10_Methods
        /\ batch[1].ids = [resultOf |-> "", path |-> ""]
        /\ batch[1].query = [filter |-> filter, property |-> "receivedAt",
                             isAscending |-> FALSE, position |-> 0,
                             collapseThreads |-> TRUE, limit |-> inputs["limit"]]
        /\ \A i \in 2..Len(batch) :
               /\ batch[i].ids.resultOf = batch[i - 1].name
               /\ batch[i].ids.path = C10_Paths[i]
               /\ StageIndex(batch, batch[i].ids.resultOf) < i
        /\ SearchSucceeded
             => LET rs == Responses(store, batch, 4, 0)
                IN  /\ ErrorsOf(rs) = <<>>
                    /\ [i \in 1..Len(result.data) |-> result.data[i].id] = rs[4].ids

\* A search that returned summaries of a thread with a member that the query
\* stage did not list.
C10_Witness ==
    /\ SearchSucceeded
    /\ Len(batch) = 4
    /\ Len(result.data) > Len(Responses(store, batch, 4, 0)[1].ids)

\* ------------------------------------------------------------------- C11
\* The network steps of one invocation, each issued and then completed.
C11_Steps ==
    << "issue:session", "done:session", "issue:Email.get", "done:Email.get",
       "issue:downloadBlob", "done:downloadBlob", "issue:text", "done:text" >>

C11_Header(id) ==
    IF id = "e1"
    THEN "Subject: Hi\nFrom: Al <al@x.com>\nTo: (Unknown Recipient)\n"
           \o "Date: (Unknown Date)\n\n---\n\n"
    ELSE "Subject: (No Subject)\nFrom: (Unknown Sender)\nTo: Bo <bo@y.org>\n"
           \o "Date: 2024-02-02T10:00:00Z\n\n---\n\n"

\* The first declared part of the preferred rendition: e1's plain-text part
\* t1, e2's HTML part h1.
C11_Blob(id) == IF id = "e1" THEN "t1" ELSE "h1"

C11_Content(id) ==
    IF id = "e1" THEN "content of t1"
    ELSE "[HTML Body - may contain tags]\ncontent of h1"

\* What get_email_content(id) settles to when it runs alone against mail
\* data m.
C11_Alone(m, id) ==
    CASE ~m.session -> Rejected("session")
      [] m.session /\ id = "missing" ->
             ReturnedError("Error: Email with ID missing not found.")
      [] m.session /\ id /= "missing" /\ m.get[id] = "fails" ->
             Rejected("Email.get")
      [] OTHER ->
             CASE m.blob[C11_Blob(id)] = "ok" ->
                      Returned(C11_Header(id) \o C11_Content(id), <<>>)
               [] m.blob[C11_Blob(id)] = "unreadable" -> Rejected("text")
               [] OTHER ->
                      Returned(C11_Header(id) \o "No body content found.", <<>>)

\* C11: in every interleaving of get_email_content invocations, each
\* invocation's network steps are a prefix of session, Email.get,
\* downloadBlob, reading the text, every step completed before the next is
\* issued (so at most one call is outstanding and at most one downloadBlob is
\* made); its result is settled only when no call of its own is outstanding;
\* and the result is the one the invocation gets running alone against the
\* same mail data.
C11_SequentialAndIsolated ==
    \A i \in DOMAIN invs :
        LET v == invs[i]
        IN  /\ Len(v.log) <= Len(C11_Steps)
            /\ v.log = SubSeq(C11_Steps, 1, Len(v.log))
            /\ Len(SelectSeq(v.log, LAMBDA e : e = "issue:downloadBlob")) <= 1
            /\ v.pc = "done" <=> v.result /= Pending
            /\ v.pc = "done"
                 => /\ Len(v.log) % 2 = 0
                    /\ v.result = C11_Alone(mail, v.emailId)

\* Two invocations, for e1 and for e2, each of which took steps while the
\* other was in flight, have both downloaded a body and returned.
C11_Witness ==
    /\ DOMAIN invs /= {}
    /\ invs[1].pc = "done" /\ invs[2].pc = "done"
    /\ invs[1].emailId = "e1" /\ invs[2].emailId = "e2"
    /\ invs[1].overlapped /\ invs[2].overlapped
    /\ Len(invs[1].log) = 8 /\ Len(invs[2].log) = 8
    /\ invs[1].result.kind = "returned" /\ invs[2].result.kind = "returned"
    /\ invs[1].result.text /= invs[2].result.text
====
